---- MODULE Spec2Model ----
(***************************************************************************)
(* Model of kmp-rs (src/src/lib.rs): the generalized Knuth-Morris-Pratt    *)
(* failure table (kmp_table), the pattern (KmpPattern) and the search      *)
(* iterator (KmpSearch::next) over element types whose comparison is given *)
(* by the KmpSearchable / KmpMatchable traits.                             *)
(*                                                                         *)
(* Positions are 0-based as in the source; TLA+ sequences are 1-based, so  *)
(* the source's s[i] is written s[i + 1].                                  *)
(***************************************************************************)
EXTENDS Integers, Sequences, FiniteSets

\* ---------------------------------------------------------------- bounds
MaxNeedle == 3
MaxHaystack == 4

\* ------------------------------------------------------- element types
\* "exact": the KmpPrimitive blanket impls (u8, char, bool): all three ==.
\* "fold" : case-insensitive letters; possible and match_haystack fold
\*          case, guaranteed requires the exact case.  match_haystack reads a
\*          haystack letter only through Lower, so the haystack alphabet
\*          keeps one case of each letter.
\* "wild" : needle letters plus the wildcard "?", haystack plain letters;
\*          possible is true when either side is the wildcard.
\* "loose": possible always, guaranteed never, match_haystack ==: every
\*          table entry past the first is provisional.
\* "odd"  : predicates that keep no law (possible is not symmetric,
\*          guaranteed does not imply possible, match_haystack is !=); the
\*          traits (lines 1-9) do not forbid them.
Kinds == {"exact", "fold", "wild", "loose", "odd"}

NeedleAlphabet(k) ==
    IF k = "fold" THEN {"a", "A", "b"}
    ELSE IF k = "wild" THEN {"a", "b", "?"}
    ELSE {"a", "b"}

HaystackAlphabet(k) ==
    IF k = "fold" THEN {"A", "b"}
    ELSE {"a", "b"}

Lower(x) == IF x = "A" THEN "a" ELSE x

is_match_possible(k, x, y) ==
    IF k = "exact" THEN x = y
    ELSE IF k = "fold" THEN Lower(x) = Lower(y)
    ELSE IF k = "wild" THEN x = "?" \/ y = "?" \/ x = y
    ELSE IF k = "loose" THEN TRUE
    ELSE x = "a"

is_match_guaranteed(k, x, y) ==
    IF k = "exact" THEN x = y
    ELSE IF k = "fold" THEN x = y
    ELSE IF k = "wild" THEN x = y /\ x # "?"
    ELSE IF k = "loose" THEN FALSE
    ELSE x = y

match_haystack(k, n, h) ==
    IF k = "exact" THEN n = h
    ELSE IF k = "fold" THEN Lower(n) = Lower(h)
    ELSE IF k = "wild" THEN n = "?" \/ n = h
    ELSE IF k = "loose" THEN n = h
    ELSE n # h

SeqsUpTo(S, n) == UNION {[1..m -> S] : m \in 0..n}

\* ---------------------------------------------------------- kmp_table
KmpTableItem(n, h) == [needle |-> n, haystack |-> h]

\* Faulty variants of advance_item: the guaranteed test inverted, and a
\* provisional offset that grows by two.
advance_item_inverted(item, guaranteed) ==
    KmpTableItem(item.needle + 1,
                 IF item.haystack = 0
                 THEN (IF guaranteed THEN 1 ELSE 0)
                 ELSE item.haystack + 1)

advance_item_double(item, guaranteed) ==
    KmpTableItem(item.needle + 1,
                 IF item.haystack = 0
                 THEN (IF ~guaranteed THEN 1 ELSE 0)
                 ELSE item.haystack + 2)

\* lines 58-66: the entry recorded when needle_item possibly matches
\* needle[item.needle].
advance_item(item, guaranteed) ==
    KmpTableItem(item.needle + 1,
                 IF item.haystack = 0
                 THEN (IF ~guaranteed THEN 1 ELSE 0)
                 ELSE item.haystack + 1)

\* lines 56-75: the inner loop for one needle element.
RECURSIVE table_loop(_, _, _, _, _)
table_loop(k, ndl, lsp_, needle_item, item) ==
    IF is_match_possible(k, needle_item, ndl[item.needle + 1])
    THEN advance_item(item, is_match_guaranteed(k, needle_item, ndl[item.needle + 1]))
    ELSE IF item.needle = 0
         THEN item
         ELSE table_loop(k, ndl, lsp_, needle_item, lsp_[item.needle])

\* lines 53-78: the outer loop, lsp_ holds the entries pushed so far.
RECURSIVE table_from(_, _, _)
table_from(k, ndl, lsp_) ==
    IF Len(lsp_) = Len(ndl)
    THEN lsp_
    ELSE table_from(k, ndl,
             Append(lsp_, table_loop(k, ndl, lsp_, ndl[Len(lsp_) + 1], lsp_[Len(lsp_)])))

\* Faulty variant of kmp_table: every entry is the initial (0, 0).
kmp_table_zero(k, ndl) == [i \in 1..Len(ndl) |-> KmpTableItem(0, 0)]

kmp_table(k, ndl) ==
    IF ndl = <<>> THEN <<>> ELSE table_from(k, ndl, <<KmpTableItem(0, 0)>>)

\* ---------------------------------------------------------- KmpSearch
\* Faulty variants of exhausted: an off-by-one comparison, and a test that
\* forgets the needle length.
exhausted_inclusive(hp, needle_len, np, haystack_len) ==
    hp + needle_len - np >= haystack_len

exhausted_no_needle(hp, needle_len, np, haystack_len) ==
    hp - np > haystack_len

\* line 146: the early-exit test of next().
exhausted(hp, needle_len, np, haystack_len) ==
    hp + needle_len - np > haystack_len

\* line 171
match_position(hp, needle_len) == hp - needle_len

\* Faulty variants of back_needle_pos: a back-off that always restarts the
\* needle, and one that resumes one element too far.
back_needle_pos_restart(back) == 0

back_needle_pos_plus_one(back) ==
    IF back.haystack # 0 THEN back.needle - back.haystack ELSE back.needle + 1

\* lines 175-178 and 192-195: the cursors after backing off through `back`.
back_needle_pos(back) ==
    IF back.haystack # 0 THEN back.needle - back.haystack ELSE back.needle

\* Faulty variant of back_haystack_pos: rewinds by the fallback length.
back_haystack_pos_by_needle(back, hp) ==
    IF back.haystack # 0 THEN hp - back.needle ELSE hp

back_haystack_pos(back, hp) ==
    IF back.haystack # 0 THEN hp - back.haystack ELSE hp

VARIABLES
    kind,           \* the element type (trait implementations in use)
    needle,         \* KmpPattern::needle
    lsp,            \* KmpPattern::lsp
    haystack,       \* KmpSearch::haystack
    overlapping,    \* const OVERLAPPING
    needle_pos,     \* KmpSearch::needle_pos
    haystack_pos,   \* KmpSearch::haystack_pos
    haystack_item,  \* index of the element the local haystack_item refers to
    pc,             \* "new", "ready", "idle", "outer", "inner", "done", "panic"
    out,            \* the positions yielded so far by this iterator
    compared,       \* some match_haystack call was made by this iterator
    rewound         \* some back-off moved haystack_pos backwards

vars == <<kind, needle, lsp, haystack, overlapping, needle_pos, haystack_pos,
          haystack_item, pc, out, compared, rewound>>

Init ==
    /\ kind \in Kinds
    /\ needle \in SeqsUpTo(NeedleAlphabet(kind), MaxNeedle)
    /\ lsp = <<>>
    /\ haystack = <<>>
    /\ overlapping = FALSE
    /\ needle_pos = 0
    /\ haystack_pos = 0
    /\ haystack_item = 0
    /\ pc = "new"
    /\ out = <<>>
    /\ compared = FALSE
    /\ rewound = FALSE

\* KmpPattern::new
PatternNew ==
    /\ pc = "new"
    /\ lsp' = kmp_table(kind, needle)
    /\ pc' = "ready"
    /\ UNCHANGED <<kind, needle, haystack, overlapping, needle_pos, haystack_pos,
                   haystack_item, out, compared, rewound>>

\* KmpSearch::new, reached through find / find_overlapping.
SearchNew(h, ov) ==
    /\ pc = "ready"
    /\ haystack' = h
    /\ overlapping' = ov
    /\ needle_pos' = 0
    /\ haystack_pos' = 0
    /\ haystack_item' = 0
    /\ out' = <<>>
    /\ compared' = FALSE
    /\ rewound' = FALSE
    /\ pc' = "idle"
    /\ UNCHANGED <<kind, needle, lsp>>

Find == \E h \in SeqsUpTo(HaystackAlphabet(kind), MaxHaystack) : SearchNew(h, FALSE)

FindOverlapping == \E h \in SeqsUpTo(HaystackAlphabet(kind), MaxHaystack) : SearchNew(h, TRUE)

Panic ==
    /\ pc' = "panic"
    /\ UNCHANGED <<kind, needle, lsp, haystack, overlapping, needle_pos, haystack_pos,
                   haystack_item, out, compared, rewound>>

\* next(), lines 143-153: entry, early exit and the empty needle.
NextEnter ==
    /\ pc = "idle"
    /\ LET needle_len == Len(needle) IN
       IF needle_pos > haystack_pos + needle_len
       THEN Panic
       ELSE IF exhausted(haystack_pos, needle_len, needle_pos, Len(haystack))
       THEN /\ pc' = "done"
            /\ UNCHANGED <<kind, needle, lsp, haystack, overlapping, needle_pos,
                           haystack_pos, haystack_item, out, compared, rewound>>
       ELSE IF needle_len = 0
       THEN /\ haystack_pos' = haystack_pos + 1
            /\ out' = Append(out, haystack_pos' - 1)
            /\ pc' = "idle"
            /\ UNCHANGED <<kind, needle, lsp, haystack, overlapping, needle_pos,
                           haystack_item, compared, rewound>>
       ELSE /\ pc' = "outer"
            /\ UNCHANGED <<kind, needle, lsp, haystack, overlapping, needle_pos,
                           haystack_pos, haystack_item, out, compared, rewound>>

\* next(), lines 156-161: head of the outer loop.
OuterStep ==
    /\ pc = "outer"
    /\ IF haystack_pos >= Len(haystack)
       THEN /\ pc' = "done"
            /\ UNCHANGED <<kind, needle, lsp, haystack, overlapping, needle_pos,
                           haystack_pos, haystack_item, out, compared, rewound>>
       ELSE /\ haystack_item' = haystack_pos
            /\ haystack_pos' = haystack_pos + 1
            /\ pc' = "inner"
            /\ UNCHANGED <<kind, needle, lsp, haystack, overlapping, needle_pos,
                           out, compared, rewound>>

\* next(), lines 164-185: the current needle element matches haystack_item.
Matched ==
    LET needle_len == Len(needle)
        np == needle_pos + 1
    IN  IF np # needle_len
        THEN /\ needle_pos' = np
             /\ pc' = "outer"
             /\ compared' = TRUE
             /\ UNCHANGED <<kind, needle, lsp, haystack, overlapping, haystack_pos,
                            haystack_item, out, rewound>>
        ELSE IF haystack_pos < needle_len
        THEN Panic
        ELSE IF overlapping
        THEN IF np - 1 >= Len(lsp)
             THEN Panic
             ELSE LET back == lsp[np] IN
                  IF back.haystack # 0 /\ (back.haystack > back.needle \/ back.haystack > haystack_pos)
                  THEN Panic
                  ELSE /\ needle_pos' = back_needle_pos(back)
                       /\ haystack_pos' = back_haystack_pos(back, haystack_pos)
                       /\ rewound' = (rewound \/ haystack_pos' < haystack_pos)
                       /\ out' = Append(out, match_position(haystack_pos, needle_len))
                       /\ pc' = "idle"
                       /\ compared' = TRUE
                       /\ UNCHANGED <<kind, needle, lsp, haystack, overlapping, haystack_item>>
        ELSE /\ needle_pos' = 0
             /\ out' = Append(out, match_position(haystack_pos, needle_len))
             /\ pc' = "idle"
             /\ compared' = TRUE
             /\ UNCHANGED <<kind, needle, lsp, haystack, overlapping, haystack_pos,
                            haystack_item, rewound>>

\* next(), lines 187-197: the current needle element does not match.
Mismatched ==
    IF needle_pos = 0
    THEN /\ pc' = "outer"
         /\ compared' = TRUE
         /\ UNCHANGED <<kind, needle, lsp, haystack, overlapping, needle_pos, haystack_pos,
                        haystack_item, out, rewound>>
    ELSE IF needle_pos - 1 >= Len(lsp)
    THEN Panic
    ELSE LET back == lsp[needle_pos] IN
         IF back.haystack # 0 /\ (back.haystack > back.needle \/ back.haystack > haystack_pos)
         THEN Panic
         ELSE IF back.haystack # 0 /\ back_haystack_pos(back, haystack_pos) >= Len(haystack)
         THEN Panic
         ELSE /\ needle_pos' = back_needle_pos(back)
              /\ haystack_pos' = back_haystack_pos(back, haystack_pos)
              /\ haystack_item' = IF back.haystack # 0 THEN haystack_pos' ELSE haystack_item
              /\ rewound' = (rewound \/ haystack_pos' < haystack_pos)
              /\ pc' = "inner"
              /\ compared' = TRUE
              /\ UNCHANGED <<kind, needle, lsp, haystack, overlapping, out>>

\* next(), lines 163-198: one pass of the inner loop.
InnerStep ==
    /\ pc = "inner"
    /\ IF needle_pos >= Len(needle) \/ needle_pos < 0
          \/ haystack_item >= Len(haystack) \/ haystack_item < 0
       THEN Panic
       ELSE IF match_haystack(kind, needle[needle_pos + 1], haystack[haystack_item + 1])
       THEN Matched
       ELSE Mismatched

Next == PatternNew \/ Find \/ FindOverlapping \/ NextEnter \/ OuterStep \/ InnerStep

Spec == Init /\ [][Next]_vars

\* The iterator is driven by its caller; a caller that drains it keeps
\* calling next(), and each call runs to its return.
FairSpec == Spec /\ WF_vars(NextEnter) /\ WF_vars(OuterStep) /\ WF_vars(InnerStep)

\* ------------------------------------------------------------ properties
needle_len == Len(needle)
haystack_len == Len(haystack)

\* A search iterator exists (find / find_overlapping has been called).
Searching == pc \in {"idle", "outer", "inner", "done", "panic"}

Yielded == {out[i] : i \in DOMAIN out}

StrictlyIncreasing(s) == \A i \in 1..(Len(s) - 1) : s[i] < s[i + 1]

\* The needle occurs at p by plain equality of elements.
EqualAt(p) ==
    /\ p + needle_len <= haystack_len
    /\ \A i \in 1..needle_len : haystack[p + i] = needle[i]

\* The needle occurs at p by match_haystack.
MatchesAt(p) ==
    /\ p + needle_len <= haystack_len
    /\ \A i \in 1..needle_len : match_haystack(kind, needle[i], haystack[p + i])

EqualOccurrences == {p \in 0..(haystack_len - needle_len) : EqualAt(p)}

TrueOccurrences == {p \in 0..(haystack_len - needle_len) : MatchesAt(p)}

Fuzzy == kind \in {"fold", "wild"}

\* C1: for exact-equality elements and a non-empty needle, draining
\* find_overlapping yields every position where the needle occurs, each
\* once, in increasing order, and no other position.
C1_OverlappingIsClassical ==
    (Searching /\ kind = "exact" /\ overlapping /\ needle_len > 0) =>
        /\ pc # "panic"
        /\ StrictlyIncreasing(out)
        /\ Yielded \subseteq EqualOccurrences
        /\ (pc = "done" => Yielded = EqualOccurrences)

C1_Witness ==
    /\ pc = "done" /\ kind = "exact" /\ overlapping
    /\ needle = <<"a", "a">>
    /\ haystack = <<"a", "a", "a", "a">>
    /\ out = <<0, 1, 2>>

\* C2: with a fuzzy element type, every position yielded by find or
\* find_overlapping is a true occurrence: the needle fits at it and every
\* needle element matches the haystack element under it.
C2_OnlyTrueOccurrences ==
    (Searching /\ Fuzzy) => \A i \in DOMAIN out : MatchesAt(out[i])

\* is_match_possible(a, b) holds whenever one haystack element matches both.
PossibleCoversSharedMatch ==
    \A a \in NeedleAlphabet(kind), b \in NeedleAlphabet(kind) :
        (\E h \in HaystackAlphabet(kind) :
            match_haystack(kind, a, h) /\ match_haystack(kind, b, h))
        => is_match_possible(kind, a, b)

\* C3: with a fuzzy element type whose is_match_possible covers every pair
\* of needle elements one haystack element can match, draining
\* find_overlapping yields every true occurrence.
C3_NoOccurrenceSkipped ==
    (pc = "done" /\ Fuzzy /\ PossibleCoversSharedMatch /\ overlapping /\ needle_len > 0) =>
        TrueOccurrences \subseteq Yielded

\* The greedy leftmost non-overlapping occurrences starting at or after start.
RECURSIVE GreedyFrom(_)
GreedyFrom(start) ==
    LET later == {p \in start..(haystack_len - needle_len) : EqualAt(p)} IN
    IF later = {}
    THEN <<>>
    ELSE LET p == CHOOSE q \in later : \A r \in later : q <= r
         IN  <<p>> \o GreedyFrom(p + needle_len)

\* C4: for exact-equality elements and a non-empty needle, draining find
\* yields the greedy leftmost non-overlapping occurrences.
C4_FindIsGreedy ==
    (Searching /\ kind = "exact" /\ ~overlapping /\ needle_len > 0) =>
        /\ pc # "panic"
        /\ (pc = "done" => out = GreedyFrom(0))

C4_Witness ==
    /\ pc = "done" /\ kind = "exact" /\ ~overlapping
    /\ needle = <<"a", "a">>
    /\ haystack = <<"a", "a", "a", "a">>
    /\ out = <<0, 2>>

\* C5: for an empty needle and a haystack of length k, in both modes, the
\* calls of next() yield 0, 1, ..., k in that order and then None.
C5_EmptyNeedle ==
    (Searching /\ needle_len = 0) =>
        /\ pc \in {"idle", "done"}
        /\ out = [i \in 1..Len(out) |-> i - 1]
        /\ Len(out) <= haystack_len + 1
        /\ (pc = "done" => Len(out) = haystack_len + 1)

C5_Witness ==
    /\ pc = "done" /\ needle = <<>> /\ haystack_len = 2 /\ out = <<0, 1, 2>>

\* The classical failure value of needle[0..=i]: the length of its longest
\* proper prefix that is also its suffix (i is 0-based).
Failure(i) ==
    LET borders == {k \in 0..i : SubSeq(needle, 1, k) = SubSeq(needle, i + 2 - k, i + 1)}
    IN  CHOOSE k \in borders : \A j \in borders : j <= k

\* C6: for exact-equality elements the table has one entry per needle
\* element, whose needle field is the classical failure value and whose
\* haystack offset is 0.
C6_ClassicalTable ==
    (pc # "new" /\ kind = "exact") =>
        /\ Len(lsp) = needle_len
        /\ \A i \in 1..needle_len :
              /\ lsp[i].needle = Failure(i - 1)
              /\ lsp[i].haystack = 0

C6_Witness ==
    /\ pc = "ready" /\ kind = "exact"
    /\ needle = <<"a", "a", "b">>
    /\ lsp = <<KmpTableItem(0, 0), KmpTableItem(1, 0), KmpTableItem(0, 0)>>

\* C7: when the needle is longer than the haystack, for every element type
\* and in both modes, the first next() returns None without comparing any
\* element, and no position is yielded.
C7_NeedleLongerThanHaystack ==
    (Searching /\ needle_len > haystack_len) =>
        /\ pc \in {"idle", "done"}
        /\ out = <<>>
        /\ ~compared

C7_Witness ==
    /\ pc = "done" /\ kind = "wild" /\ needle_len > haystack_len /\ haystack_len > 0

\* C8: every call of next() returns, and a drained iterator reaches None:
\* a call in progress leads to its return, and an iterator leads to None.
C8_Terminates ==
    /\ (pc \in {"outer", "inner"}) ~> (pc \in {"idle", "done"})
    /\ (pc = "idle") ~> (pc = "done")

C8_Witness ==
    /\ pc = "done" /\ rewound /\ Len(out) > 0

\* The table entry a mismatch at needle_pos backs off through can be applied:
\* its offset exceeds neither its fallback nor the haystack cursor, and the
\* rewound cursor indexes the haystack.
BackOffInRange ==
    needle_pos > 0 =>
        /\ lsp[needle_pos].haystack <= lsp[needle_pos].needle
        /\ lsp[needle_pos].haystack <= haystack_pos
        /\ (lsp[needle_pos].haystack # 0 =>
               haystack_pos - lsp[needle_pos].haystack < haystack_len)

\* The cursors while the inner loop compares needle[needle_pos] with
\* haystack_item: both indices are in range and a match of the last needle
\* element leaves haystack_pos - needle_len >= 0.
InnerInRange ==
    /\ 0 <= haystack_item
    /\ haystack_item < haystack_len
    /\ needle_pos < haystack_pos
    /\ (needle_pos + 1 = needle_len => haystack_pos >= needle_len)
    /\ BackOffInRange

CursorsInRange ==
    /\ 0 <= needle_pos
    /\ needle_pos <= haystack_pos
    /\ needle_pos <= needle_len
    /\ (needle_len > 0 => (needle_pos < needle_len /\ haystack_pos <= haystack_len))
    /\ (pc = "inner" => InnerInRange)
    /\ \A i \in DOMAIN out : out[i] >= 0

\* C9: no index is out of range and no unsigned subtraction underflows:
\* every table entry at position i has haystack <= needle <= i, no step of
\* next() panics, and the cursors stay within the needle and the haystack.
C9_InRange ==
    /\ \A i \in 1..Len(lsp) :
          /\ 0 <= lsp[i].haystack
          /\ lsp[i].haystack <= lsp[i].needle
          /\ lsp[i].needle <= i - 1
    /\ pc # "panic"
    /\ (Searching => CursorsInRange)

C9_Witness ==
    /\ pc = "done" /\ rewound /\ kind = "wild"
    /\ \E i \in 1..Len(lsp) : lsp[i].haystack = 2

\* C10: the positions one iterator yields are strictly increasing, for every
\* element type and in both modes; in non-overlapping mode with a non-empty
\* needle consecutive positions differ by at least the needle length.
C10_StrictlyIncreasing ==
    /\ StrictlyIncreasing(out)
    /\ (~overlapping /\ needle_len > 0) =>
          \A i \in 1..(Len(out) - 1) : out[i + 1] - out[i] >= needle_len

C10_Witness ==
    /\ rewound /\ overlapping /\ Len(out) >= 2

====
